---- MODULE Spec2Model ----
(***************************************************************************)
(* Control loop of the waste sorter (waste_classification.ino): the        *)
(* debounced IR trigger in loop(), the detection cycle of                  *)
(* handleWasteDetected() and the actuation sequence of sortWaste().        *)
(*                                                                         *)
(* Time is in milliseconds.  The code reads millis() only in differences   *)
(* against a recorded timestamp (millis() - lastIrTime, millis() -         *)
(* waitStart), so the state holds those differences: recording the         *)
(* timestamp sets the difference to 0 and every delay() adds to it.  A     *)
(* difference is exact up to a cap above every constant it is compared     *)
(* with and stays at the cap beyond it; spans are below 2^32 ms, where     *)
(* the unsigned subtraction of the code is exact.  Time advances by the    *)
(* delay() calls of the code (a beep is the sum of its delays), by the     *)
(* blocking library calls (frame capture, POST, carousel.step), which      *)
(* take one of the durations in BlockingMs, and, between two polls of the  *)
(* idle loop, by IdleStepMs.  The WiFi link and the IR sensor are the      *)
(* environment: they change at any moment.                                 *)
(***************************************************************************)
EXTENDS Integers, Sequences, FiniteSets, TLC

\* ---------------------------------------------------------------- bounds
MaxSinceIr == 1000    \* cap of millis() - lastIrTime (above irDebounceMs)
IdleStepMs == 1000    \* time that passes between two modelled idle polls
MaxBins == 8          \* planMove is checked for 1..MaxBins categories
MaxSorts == 8         \* length of a sequence of sortWaste calls

\* ------------------------------------------------------ program constants
stepsPerRevolution == 2048
wasteCategories == 5
stepsPerSlot == stepsPerRevolution \div wasteCategories
wasteLabels == <<"Plastic", "Paper", "Organic", "Metal", "Glass">>
irDebounceMs == 200
trapdoorOpenMs == 900
servoClosedAngle == 0
servoOpenAngle == 90
wifiReconnectTimeoutMs == 5000
wifiPollMs == 200
settleMs == 100
setupWifiTimeoutMs == 10000
setupWifiPollMs == 500

LOW == 0
HIGH == 1

\* const char* that points nowhere (doc["label"] of a document without one)
NullPtr == "<null>"
\* label strings a classifier response may carry
LabelVocabulary == {"Plastic", "Paper", "Organic", "Metal", "Glass", "metal", "Battery"}
\* response bodies: ok is whether deserializeJson accepts the body
Bodies == {[ok |-> FALSE, label |-> NullPtr]}
            \cup {[ok |-> TRUE, label |-> l] : l \in LabelVocabulary \cup {NullPtr}}
NoBody == [ok |-> FALSE, label |-> NullPtr]
\* return values of HTTPClient::POST: a client error, or the HTTP status
HttpCodes == {-1, 200, 404, 500}

Abs(x) == IF x < 0 THEN -x ELSE x

\* beep(times, durationMs, gapMs): the time it blocks
beep(times, durationMs, gapMs) == times * durationMs + (times - 1) * gapMs
beepWiFiConnected == beep(1, 300, 100) + 150 + beep(1, 150, 100)
beepWiFiFailed == beep(3, 200, 150)

VARIABLES
  pc,             \* position of the single thread of control
  wifi,           \* WiFi.status() == WL_CONNECTED
  ir,             \* level of the IR sensor pin
  currentSlot,    \* int currentSlot
  sinceIr,        \* millis() - lastIrTime, capped at MaxSinceIr
  sinceWait,      \* millis() - waitStart during the reconnect wait
  trapdoor,       \* last angle written to the servo, -1 before setup
  fbCount,        \* config.fb_count
  fbHeld,         \* frame buffers obtained and not returned
  httpCode,       \* local of handleWasteDetected
  resp,           \* local of handleWasteDetected (the body, as parsed)
  predictedLabel, \* local of handleWasteDetected
  labelIndex,     \* local of handleWasteDetected
  label,          \* parameter of sortWaste
  delta,          \* local of sortWaste
  stepsToMove,    \* local of sortWaste
  log,            \* what the current cycle has done so far (history)
  slotAtStart,    \* currentSlot when the current cycle was accepted (history)
  outcome,        \* how the current cycle ended (history)
  sinceReturn,    \* time since the last cycle returned to loop(), -1 if
                  \* none has since the start (history)
  polled,         \* what the last pass of loop() read and did (history)
  pulse,          \* an object that came to the sensor while a cycle was
                  \* running: "begun", "missed" once it has left again
                  \* before loop() polled, else "none" (history)
  plan,           \* argument and result of a stand-alone planMove evaluation
  tour            \* a stand-alone sequence of sortWaste calls

vars == <<pc, wifi, ir, currentSlot, sinceIr, sinceWait, trapdoor, fbCount,
          fbHeld, httpCode, resp, predictedLabel, labelIndex, label, delta,
          stepsToMove, log, slotAtStart, outcome, sinceReturn, polled, pulse,
          plan, tour>>

env == <<wifi, ir>>
clocks == <<sinceIr, sinceWait, sinceReturn>>
camera == <<fbCount, fbHeld>>
locals == <<httpCode, resp, predictedLabel, labelIndex, label, delta, stepsToMove>>

hist == <<log, slotAtStart, outcome, polled>>

Ev(e, a) == [ev |-> e, arg |-> a]

\* a pass of loop(): the level read, millis() - lastIrTime and the time since
\* the last return at that moment, whether a cycle was started, and whether
\* an object had come and gone unseen while the last cycle was running
Pass(lvl, el, ret, acc, gone) ==
  [level |-> lvl, elapsed |-> el, sinceReturn |-> ret, accepted |-> acc,
   missed |-> gone]
NoPass == Pass(HIGH, 0, -1, FALSE, FALSE)

\* a sequence of sortWaste calls: the slot recorded, the sum of the steps
\* commanded to the carousel, the number of calls
NoTour == [slot |-> 0, pos |-> 0, sorts |-> 0]

NoPlan == [n |-> 0, current |-> 0, target |-> 0, delta |-> 0, done |-> FALSE]

Min(a, b) == IF a < b THEN a ELSE b

\* the wrap-around step of sortWaste, for totalBins categories
planMoveWrapTies(current, target, totalBins) ==
  LET d == target - current
  IN IF Abs(d) >= totalBins \div 2
       THEN (IF d > 0 THEN d - totalBins ELSE d + totalBins)
       ELSE d

\* the raw difference, with no wrap-around at all
planMoveNoWrap(current, target, totalBins) == target - current

planMove(current, target, totalBins) ==
  LET d == target - current
  IN IF Abs(d) > totalBins \div 2
       THEN (IF d > 0 THEN d - totalBins ELSE d + totalBins)
       ELSE d

\* power-on: the initialisers of the globals, nothing set up yet
PowerOn ==
  /\ pc = "setup"
  /\ wifi \in BOOLEAN
  /\ ir \in {LOW, HIGH}
  /\ currentSlot = 0
  /\ sinceIr = 0
  /\ sinceWait = 0
  /\ trapdoor = -1
  /\ fbCount = 0
  /\ fbHeld = 0
  /\ httpCode = 0
  /\ resp = NoBody
  /\ predictedLabel = NullPtr
  /\ labelIndex = -1
  /\ label = 0
  /\ delta = 0
  /\ stepsToMove = 0
  /\ log = <<>>
  /\ slotAtStart = 0
  /\ outcome = "none"
  /\ sinceReturn = -1
  /\ polled = NoPass
  /\ pulse = "none"

Init == PowerOn /\ plan = NoPlan /\ tour = NoTour

\* delay(ms) and every other blocking wait: millis() moves on by ms
Elapse(ms) == sinceIr' = Min(sinceIr + ms, MaxSinceIr)

\* how long a blocking library call (esp_camera_fb_get, http.POST,
\* carousel.step) may take: no time to speak of, or longer than the debounce
BlockingMs == {0, irDebounceMs + wifiPollMs}

\* polls the WiFi wait of setup() can take: none, or all of them
SetupPolls == {0, setupWifiTimeoutMs \div setupWifiPollMs}

\* setup(): camera configuration, WiFi wait, actuators, currentSlot = 0
Setup ==
  /\ pc = "setup"
  /\ \E psram \in BOOLEAN, polls \in SetupPolls :
       /\ fbCount' = IF psram THEN 2 ELSE 1
       /\ (~wifi => polls * setupWifiPollMs >= setupWifiTimeoutMs)
       /\ Elapse(polls * setupWifiPollMs
                   + (IF wifi THEN beepWiFiConnected ELSE beepWiFiFailed))
  /\ trapdoor' = servoClosedAngle
  /\ currentSlot' = 0
  /\ pc' = "idle"
  /\ UNCHANGED <<env, sinceWait, sinceReturn, fbHeld, locals, hist, pulse, plan, tour>>

\* the debounce test of loop(), on elapsed = millis() - lastIrTime
debounceElapsedLong(elapsed) == elapsed > 1000

debounceElapsed(elapsed) == elapsed > irDebounceMs

\* loop() with a trigger that is latched: an object that came and went while
\* the last cycle was running still starts a cycle
LoopLatched ==
  /\ pc = "idle"
  /\ IF (ir = LOW \/ pulse = "missed") /\ debounceElapsed(sinceIr)
       THEN /\ sinceIr' = beep(2, 100, 50)
            /\ log' = <<Ev("beepDetected", 0)>>
            /\ slotAtStart' = currentSlot
            /\ outcome' = "running"
            /\ polled' = Pass(ir, sinceIr, sinceReturn, TRUE, pulse = "missed")
            /\ sinceReturn' = 0
            /\ pc' = "wifi_check"
       ELSE /\ polled' = Pass(ir, sinceIr, sinceReturn, FALSE, pulse = "missed")
            /\ UNCHANGED <<sinceIr, sinceReturn, log, slotAtStart, outcome, pc>>
  /\ pulse' = "none"
  /\ UNCHANGED <<env, currentSlot, sinceWait, trapdoor, camera, locals, plan, tour>>

\* one pass of loop(): sample the sensor, debounce, start a cycle.
\* lastIrTime = millis() sets the difference to 0; beep(2, 100, 50) follows.
Loop ==
  /\ pc = "idle"
  /\ IF ir = LOW /\ debounceElapsed(sinceIr)
       THEN /\ sinceIr' = beep(2, 100, 50)
            /\ log' = <<Ev("beepDetected", 0)>>
            /\ slotAtStart' = currentSlot
            /\ outcome' = "running"
            /\ polled' = Pass(ir, sinceIr, sinceReturn, TRUE, pulse = "missed")
            /\ sinceReturn' = 0
            /\ pc' = "wifi_check"
       ELSE /\ polled' = Pass(ir, sinceIr, sinceReturn, FALSE, pulse = "missed")
            /\ UNCHANGED <<sinceIr, sinceReturn, log, slotAtStart, outcome, pc>>
  /\ pulse' = "none"
  /\ UNCHANGED <<env, currentSlot, sinceWait, trapdoor, camera, locals, plan, tour>>

\* time passes while loop() polls
IdleTick ==
  /\ pc = "idle"
  /\ Elapse(IdleStepMs)
  /\ sinceReturn' = IF sinceReturn < 0 THEN sinceReturn
                    ELSE Min(sinceReturn + IdleStepMs, MaxSinceIr)
  /\ polled' = NoPass
  /\ UNCHANGED <<pc, env, currentSlot, sinceWait, trapdoor, camera, locals,
                 log, slotAtStart, outcome, pulse, plan, tour>>

\* environment: an object arrives at or leaves the sensor
SensorChange ==
  /\ pc # "setup"
  /\ ir' = IF ir = LOW THEN HIGH ELSE LOW
  /\ pulse' = IF ir = HIGH
                THEN (IF pc \in {"idle", "crashed"} THEN "none" ELSE "begun")
                ELSE (IF pulse = "begun"
                        THEN (IF pc \in {"idle", "crashed"} THEN "none" ELSE "missed")
                        ELSE pulse)
  /\ UNCHANGED <<pc, wifi, currentSlot, clocks, trapdoor, camera, locals,
                 hist, plan, tour>>

\* environment: the WiFi link comes up or goes down
WiFiChange ==
  /\ pc # "setup"
  /\ wifi' = ~wifi
  /\ UNCHANGED <<pc, ir, currentSlot, clocks, trapdoor, camera, locals,
                 hist, pulse, plan, tour>>

\* ------------------------------------------------- handleWasteDetected()

\* the link torn down and reconnected whatever its status
CheckWiFiReconnects ==
  /\ pc = "wifi_check"
  /\ log' = log \o <<Ev("linkCheck", IF wifi THEN 1 ELSE 0), Ev("disconnect", 0),
                      Ev("reconnect", 0)>>
  /\ pc' = "wifi_wait"
  /\ sinceWait' = 0
  /\ polled' = NoPass
  /\ UNCHANGED <<env, currentSlot, sinceIr, sinceReturn, trapdoor, camera,
                 locals, slotAtStart, outcome, pulse, plan, tour>>

\* if (WiFi.status() != WL_CONNECTED): disconnect, reconnect, waitStart = millis()
\* The log keeps the status this test read.
CheckWiFi ==
  /\ pc = "wifi_check"
  /\ IF wifi
       THEN /\ log' = Append(log, Ev("linkCheck", 1))
            /\ pc' = "capture"
       ELSE /\ log' = log \o <<Ev("linkCheck", 0), Ev("disconnect", 0),
                                Ev("reconnect", 0)>>
            /\ pc' = "wifi_wait"
  /\ sinceWait' = 0
  /\ polled' = NoPass
  /\ UNCHANGED <<env, currentSlot, sinceIr, sinceReturn, trapdoor, camera,
                 locals, slotAtStart, outcome, pulse, plan, tour>>

\* the wait without its timeout
keepWaitingNoTimeout(up, elapsed) == ~up

\* the condition of the reconnect wait, on elapsed = millis() - waitStart
keepWaiting(up, elapsed) == ~up /\ elapsed < wifiReconnectTimeoutMs

\* while (WiFi.status() != WL_CONNECTED && millis() - waitStart < 5000) delay(200)
WiFiPoll ==
  /\ pc = "wifi_wait"
  /\ IF keepWaiting(wifi, sinceWait)
       THEN /\ Elapse(wifiPollMs)
            /\ sinceWait' = sinceWait + wifiPollMs
            /\ UNCHANGED pc
       ELSE /\ pc' = "wifi_verdict"
            /\ UNCHANGED <<sinceIr, sinceWait>>
  /\ UNCHANGED <<env, currentSlot, sinceReturn, trapdoor, camera, locals, hist, pulse, plan, tour>>

\* the test after the wait: if (WiFi.status() != WL_CONNECTED)
stillDownNever(up) == FALSE

stillDown(up) == ~up

\* after the wait: still down -> three slow beeps and return; else two beeps.
\* The log keeps the status this test read.  waitStart is a local of the
\* block: past the block it is gone.
WiFiVerdict ==
  /\ pc = "wifi_verdict"
  /\ IF stillDown(wifi)
       THEN /\ Elapse(beepWiFiFailed)
            /\ log' = log \o <<Ev("wifiStatus", IF wifi THEN 1 ELSE 0),
                                Ev("beepWiFiFailed", 0)>>
            /\ outcome' = "wifi_timeout"
            /\ pc' = "return"
            /\ UNCHANGED sinceWait
       ELSE /\ Elapse(beepWiFiConnected)
            /\ log' = log \o <<Ev("wifiStatus", IF wifi THEN 1 ELSE 0),
                                Ev("beepWiFiConnected", 0)>>
            /\ sinceWait' = 0
            /\ UNCHANGED outcome
            /\ pc' = "capture"
  /\ UNCHANGED <<env, currentSlot, sinceReturn, trapdoor, camera,
                 locals, slotAtStart, polled, pulse, plan, tour>>

\* camera_fb_t *fb = esp_camera_fb_get(); a frame needs a free buffer
Capture ==
  /\ pc = "capture"
  /\ \E got \in BOOLEAN, took \in BlockingMs :
       /\ got => fbHeld < fbCount
       /\ Elapse(took)
       /\ IF got
            THEN /\ fbHeld' = fbHeld + 1
                 /\ UNCHANGED outcome
                 /\ pc' = "post"
            ELSE /\ outcome' = "capture_failed"
                 /\ pc' = "return"
                 /\ UNCHANGED fbHeld
       /\ log' = Append(log, Ev("capture", IF got THEN 1 ELSE 0))
  /\ UNCHANGED <<env, currentSlot, sinceWait, sinceReturn, trapdoor, fbCount,
                 locals, slotAtStart, polled, pulse, plan, tour>>

\* the test on the return value of http.POST
postSucceeded(code) == code > 0

\* the POST sent again after it has failed
PostRetries ==
  /\ pc = "post"
  /\ \E code \in HttpCodes, body \in Bodies, took \in BlockingMs :
       /\ Elapse(took)
       /\ httpCode' = code
       /\ log' = Append(log, Ev("post", code))
       /\ IF postSucceeded(code)
            THEN /\ resp' = body
                 /\ pc' = "parse"
            ELSE /\ pc' = "post"
                 /\ UNCHANGED resp
  /\ UNCHANGED <<env, currentSlot, sinceWait, sinceReturn, trapdoor, camera,
                 predictedLabel, labelIndex, label, delta, stepsToMove,
                 slotAtStart, outcome, polled, pulse, plan, tour>>

\* http.begin, addHeader, POST; on httpCode > 0 read the body
Post ==
  /\ pc = "post"
  /\ \E code \in HttpCodes, body \in Bodies, took \in BlockingMs :
       /\ Elapse(took)
       /\ httpCode' = code
       /\ log' = Append(log, Ev("post", code))
       /\ IF postSucceeded(code)
            THEN /\ resp' = body
                 /\ UNCHANGED outcome
                 /\ pc' = "parse"
            ELSE /\ outcome' = "post_failed"
                 /\ pc' = "cleanup"
                 /\ UNCHANGED resp
  /\ UNCHANGED <<env, currentSlot, sinceWait, sinceReturn, trapdoor, camera,
                 predictedLabel, labelIndex, label, delta, stepsToMove,
                 slotAtStart, polled, pulse, plan, tour>>

\* deserializeJson: an error returns at once; else predictedLabel = doc["label"]
Parse ==
  /\ pc = "parse"
  /\ IF ~resp.ok
       THEN /\ outcome' = "parse_failed"
            /\ pc' = "return"
            /\ UNCHANGED predictedLabel
       ELSE /\ predictedLabel' = resp.label
            /\ pc' = "match"
            /\ UNCHANGED outcome
  /\ UNCHANGED <<env, currentSlot, clocks, trapdoor, camera, httpCode, resp,
                 labelIndex, label, delta, stepsToMove, log, slotAtStart, polled, pulse, plan, tour>>

\* the strcmp loop: the first i with wasteLabels[i] equal to s, else -1
\* the lookup with labelIndex starting at 0 instead of -1
findLabelFallback(s) ==
  IF \E i \in 1..wasteCategories : wasteLabels[i] = s
    THEN (CHOOSE i \in 1..wasteCategories : wasteLabels[i] = s) - 1
    ELSE 0

\* the lookup with a comparison that ignores the case of the first letter
findLabelNoCase(s) ==
  LET t == IF s = "metal" THEN "Metal" ELSE s
  IN IF \E i \in 1..wasteCategories : wasteLabels[i] = t
       THEN (CHOOSE i \in 1..wasteCategories : wasteLabels[i] = t) - 1
       ELSE -1

\* the lookup that returns the position counted from 1
findLabelOneBased(s) ==
  IF \E i \in 1..wasteCategories : wasteLabels[i] = s
    THEN CHOOSE i \in 1..wasteCategories : wasteLabels[i] = s
    ELSE -1

findLabel(s) ==
  IF \E i \in 1..wasteCategories : wasteLabels[i] = s
    THEN (CHOOSE i \in 1..wasteCategories :
            /\ wasteLabels[i] = s
            /\ \A j \in 1..(i - 1) : wasteLabels[j] # s) - 1
    ELSE -1

\* what strcmp on a null pointer can do: trap at the load from address 0, or
\* read something that equals no label
NullStrcmpOutcomes == {"trap", "nomatch"}

\* int labelIndex = -1; for (...) if (strcmp(predictedLabel, wasteLabels[i]) == 0) ...
Match ==
  /\ pc = "match"
  /\ log' = Append(log, Ev("strcmp", IF predictedLabel = NullPtr THEN 0 ELSE 1))
  /\ IF predictedLabel = NullPtr
       THEN \E ub \in NullStrcmpOutcomes :
              IF ub = "trap"
                THEN /\ pc' = "crashed"
                     /\ outcome' = "crashed"
                     /\ UNCHANGED labelIndex
                ELSE /\ labelIndex' = -1
                     /\ pc' = "dispatch"
                     /\ UNCHANGED outcome
       ELSE /\ labelIndex' = findLabel(predictedLabel)
            /\ pc' = "dispatch"
            /\ UNCHANGED outcome
  /\ UNCHANGED <<env, currentSlot, clocks, trapdoor, camera, httpCode, resp,
                 predictedLabel, label, delta, stepsToMove, slotAtStart, polled, pulse, plan, tour>>

\* if (labelIndex == -1) report it, else sortWaste(labelIndex)
Dispatch ==
  /\ pc = "dispatch"
  /\ IF labelIndex = -1
       THEN /\ outcome' = "unknown_label"
            /\ pc' = "cleanup"
            /\ UNCHANGED <<label, log>>
       ELSE /\ label' = labelIndex
            /\ log' = Append(log, Ev("sortWaste", labelIndex))
            /\ pc' = "sort_begin"
            /\ UNCHANGED outcome
  /\ UNCHANGED <<env, currentSlot, clocks, trapdoor, camera, httpCode, resp,
                 predictedLabel, labelIndex, delta, stepsToMove, slotAtStart,
                 polled, pulse, plan, tour>>

\* http.end(); esp_camera_fb_return(fb);
Cleanup ==
  /\ pc = "cleanup"
  /\ fbHeld' = fbHeld - 1
  /\ log' = log \o <<Ev("httpEnd", 0), Ev("fbReturn", 0)>>
  /\ pc' = "return"
  /\ UNCHANGED <<env, currentSlot, clocks, trapdoor, fbCount, locals,
                 slotAtStart, outcome, polled, pulse, plan, tour>>

\* handleWasteDetected returns to loop(); its locals and the history end here
Return ==
  /\ pc = "return"
  /\ pc' = "idle"
  /\ sinceWait' = 0
  /\ httpCode' = 0
  /\ resp' = NoBody
  /\ predictedLabel' = NullPtr
  /\ labelIndex' = -1
  /\ label' = 0
  /\ delta' = 0
  /\ stepsToMove' = 0
  /\ log' = <<>>
  /\ slotAtStart' = currentSlot
  /\ outcome' = "none"
  /\ sinceReturn' = 0
  /\ UNCHANGED <<env, currentSlot, sinceIr, trapdoor, camera, polled, pulse, plan, tour>>

\* ------------------------------------------------------------ sortWaste()

\* Serial.printf, beep(1, 300): the long beep that signals the start
SortBegin ==
  /\ pc = "sort_begin"
  /\ Elapse(beep(1, 300, 100))
  /\ log' = Append(log, Ev("beepSortStart", 0))
  /\ pc' = "sort_plan"
  /\ UNCHANGED <<env, currentSlot, sinceWait, sinceReturn, trapdoor, camera,
                 locals, slotAtStart, outcome, polled, pulse, plan, tour>>

\* delta = label - currentSlot, wrapped; stepsToMove = (long)delta * stepsPerSlot
SortPlan ==
  /\ pc = "sort_plan"
  /\ delta' = planMove(currentSlot, label, wasteCategories)
  /\ stepsToMove' = delta' * stepsPerSlot
  /\ pc' = "sort_step"
  /\ UNCHANGED <<env, currentSlot, clocks, trapdoor, camera, httpCode, resp,
                 predictedLabel, labelIndex, label, hist,
                 pulse, plan, tour>>

\* the test that guards carousel.step
mustStepAlways(steps) == TRUE

mustStep(steps) == steps # 0

\* if (stepsToMove != 0) { carousel.step(stepsToMove); delay(100); }
SortStep ==
  /\ pc = "sort_step"
  /\ IF mustStep(stepsToMove)
       THEN /\ log' = log \o <<Ev("step", stepsToMove), Ev("delay", settleMs)>>
            /\ \E took \in BlockingMs : Elapse(took + settleMs)
       ELSE UNCHANGED <<log, sinceIr>>
  /\ pc' = "sort_open"
  /\ UNCHANGED <<env, currentSlot, sinceWait, sinceReturn, trapdoor, camera,
                 locals, slotAtStart, outcome, polled, pulse, plan, tour>>

\* the gate opened with currentSlot already written
SortOpenWritesSlot ==
  /\ pc = "sort_open"
  /\ trapdoor' = servoOpenAngle
  /\ currentSlot' = label
  /\ log' = log \o <<Ev("currentSlot", label), Ev("trapdoor", servoOpenAngle)>>
  /\ pc' = "sort_dwell"
  /\ UNCHANGED <<env, clocks, camera, locals, slotAtStart, outcome, polled,
                 pulse, plan, tour>>

\* trapdoor.write(servoOpenAngle)
SortOpen ==
  /\ pc = "sort_open"
  /\ trapdoor' = servoOpenAngle
  /\ log' = Append(log, Ev("trapdoor", servoOpenAngle))
  /\ pc' = "sort_dwell"
  /\ UNCHANGED <<env, currentSlot, clocks, camera, locals, slotAtStart,
                 outcome, polled, pulse, plan, tour>>

\* delay(trapdoorOpenMs)
SortDwell ==
  /\ pc = "sort_dwell"
  /\ Elapse(trapdoorOpenMs)
  /\ log' = Append(log, Ev("delay", trapdoorOpenMs))
  /\ pc' = "sort_close"
  /\ UNCHANGED <<env, currentSlot, sinceWait, sinceReturn, trapdoor, camera,
                 locals, slotAtStart, outcome, polled, pulse, plan, tour>>

\* the gate left where it is after the dwell
SortCloseLeavesOpen ==
  /\ pc = "sort_close"
  /\ trapdoor' = trapdoor
  /\ log' = Append(log, Ev("trapdoor", servoClosedAngle))
  /\ pc' = "sort_write"
  /\ UNCHANGED <<env, currentSlot, clocks, camera, locals, slotAtStart,
                 outcome, polled, pulse, plan, tour>>

\* trapdoor.write(servoClosedAngle)
SortClose ==
  /\ pc = "sort_close"
  /\ trapdoor' = servoClosedAngle
  /\ log' = Append(log, Ev("trapdoor", servoClosedAngle))
  /\ pc' = "sort_write"
  /\ UNCHANGED <<env, currentSlot, clocks, camera, locals, slotAtStart,
                 outcome, polled, pulse, plan, tour>>

\* currentSlot = label
SortWrite ==
  /\ pc = "sort_write"
  /\ currentSlot' = label
  /\ log' = Append(log, Ev("currentSlot", label))
  /\ pc' = "sort_done"
  /\ UNCHANGED <<env, clocks, trapdoor, camera, locals, slotAtStart, outcome,
                 polled, pulse, plan, tour>>

\* beep(3, 80, 50): three short beeps; sortWaste returns to its caller
SortDone ==
  /\ pc = "sort_done"
  /\ Elapse(beep(3, 80, 50))
  /\ log' = Append(log, Ev("beepSortDone", 0))
  /\ outcome' = "sorted"
  /\ pc' = "cleanup"
  /\ UNCHANGED <<env, currentSlot, sinceWait, sinceReturn, trapdoor, camera,
                 locals, slotAtStart, polled, pulse, plan, tour>>

\* the panic handler restarts the chip: globals are initialised again and
\* setup() runs again
Reboot ==
  /\ pc = "crashed"
  /\ pc' = "setup"
  /\ currentSlot' = 0
  /\ sinceIr' = 0
  /\ sinceWait' = 0
  /\ trapdoor' = -1
  /\ fbCount' = 0
  /\ fbHeld' = 0
  /\ httpCode' = 0
  /\ resp' = NoBody
  /\ predictedLabel' = NullPtr
  /\ labelIndex' = -1
  /\ label' = 0
  /\ delta' = 0
  /\ stepsToMove' = 0
  /\ log' = <<>>
  /\ slotAtStart' = 0
  /\ outcome' = "none"
  /\ sinceReturn' = -1
  /\ polled' = NoPass
  /\ pulse' = "none"
  /\ UNCHANGED <<env, plan, tour>>

Next ==
  \/ Setup
  \/ Loop
  \/ IdleTick
  \/ SensorChange
  \/ WiFiChange
  \/ CheckWiFi
  \/ WiFiPoll
  \/ WiFiVerdict
  \/ Capture
  \/ Post
  \/ Parse
  \/ Match
  \/ Dispatch
  \/ Cleanup
  \/ Return
  \/ SortBegin
  \/ SortPlan
  \/ SortStep
  \/ SortOpen
  \/ SortDwell
  \/ SortClose
  \/ SortWrite
  \/ SortDone
  \/ Reboot

Spec == Init /\ [][Next]_vars

\* the thread of control keeps running: delay() returns, so the wait loop
\* takes its next poll, the test after it is made, and a return is taken
FairSpec ==
  Spec /\ WF_vars(WiFiPoll) /\ WF_vars(WiFiVerdict) /\ WF_vars(Return)

\* ------------------------------------------- planMove as a pure function

PlanInit ==
  /\ PowerOn
  /\ \E n \in 1..MaxBins, c \in 0..(MaxBins - 1), t \in 0..(MaxBins - 1) :
       /\ c < n
       /\ t < n
       /\ plan = [n |-> n, current |-> c, target |-> t, delta |-> 0, done |-> FALSE]
  /\ tour = NoTour

PlanCall ==
  /\ ~plan.done
  /\ plan' = [plan EXCEPT !.delta = planMove(plan.current, plan.target, plan.n),
                          !.done = TRUE]
  /\ UNCHANGED <<pc, env, currentSlot, clocks, trapdoor, camera, locals, hist,
                 pulse, tour>>

PlanNext == PlanCall

PlanSpec == PlanInit /\ [][PlanNext]_vars

\* ------------------------- sortWaste as a function of slot and position

TourInit == PowerOn /\ plan = NoPlan /\ tour = NoTour

\* one call sortWaste(target) run to its end, from currentSlot = tour.slot:
\* carousel.step(stepsToMove) adds to the position commanded so far, and
\* currentSlot = label
TourSort ==
  /\ tour.sorts < MaxSorts
  /\ \E target \in 0..(wasteCategories - 1) :
       LET steps == planMove(tour.slot, target, wasteCategories) * stepsPerSlot
       IN tour' = [slot |-> target,
                   pos |-> tour.pos + (IF mustStep(steps) THEN steps ELSE 0),
                   sorts |-> tour.sorts + 1]
  /\ UNCHANGED <<pc, env, currentSlot, clocks, trapdoor, camera, locals, hist,
                 pulse, plan>>

TourNext == TourSort

TourSpec == TourInit /\ [][TourNext]_vars

\* ------------------------------------------------------------ properties

LogHas(e) == \E i \in 1..Len(log) : log[i].ev = e
LogCount(e) == Cardinality({i \in 1..Len(log) : log[i].ev = e})
LogOf(e) == SelectSeq(log, LAMBDA x : x.ev = e)
LabelSet == {wasteLabels[i] : i \in 1..wasteCategories}
IsPrefix(a, b) == Len(a) <= Len(b) /\ SubSeq(b, 1, Len(a)) = a

\* the signed number of slots of the shorter arc from slot c to slot t
ShortestDelta(c, t) ==
  CHOOSE d \in -(wasteCategories \div 2)..(wasteCategories \div 2) :
    (c + d) % wasteCategories = t

\* the steps the cycle has commanded to the carousel
StepsCommanded == IF LogHas("step") THEN LogOf("step")[1].arg ELSE 0

\* the bin the cycle was dispatched to
SortTarget == LogOf("sortWaste")[1].arg

\* what sortWaste has done so far in this cycle
SortLog ==
  IF LogHas("sortWaste")
    THEN LET i == CHOOSE j \in 1..Len(log) : log[j].ev = "sortWaste"
         IN SelectSeq(SubSeq(log, i + 1, Len(log)),
                      LAMBDA x : x.ev \notin {"httpEnd", "fbReturn"})
    ELSE <<>>

\* C1: for every category count N and every current, target in [0, N), the
\* delta of the wrap-around step has |delta| <= N/2 and leads from current to
\* target modulo N; for even N a tie |target - current| = N/2 is not wrapped.
C1_ShortestPath ==
  plan.done =>
    /\ Abs(plan.delta) <= plan.n \div 2
    /\ (plan.current + plan.delta) % plan.n = plan.target
    /\ (plan.n % 2 = 0 /\ Abs(plan.target - plan.current) = plan.n \div 2
          => plan.delta = plan.target - plan.current)

C1_Witness ==
  /\ plan.done
  /\ plan.n = 5
  /\ plan.current = 0
  /\ plan.target = 3
  /\ plan.delta = -2

\* a cycle that is failing: by how it ended, or by what it was given
FailedCycle ==
  \/ outcome \in {"wifi_timeout", "capture_failed", "post_failed",
                  "parse_failed", "unknown_label"}
  \/ \E i \in 1..Len(log) : log[i] = Ev("wifiStatus", 0)
  \/ \E i \in 1..Len(log) : log[i] = Ev("capture", 0)
  \/ \E i \in 1..Len(log) : log[i].ev = "post" /\ log[i].arg <= 0
  \/ /\ \E i \in 1..Len(log) : log[i].ev = "post" /\ log[i].arg > 0
     /\ ~resp.ok
  \/ /\ LogHas("strcmp")
     /\ predictedLabel # NullPtr
     /\ predictedLabel \notin LabelSet

C3_SuccessfulSort ==
  outcome = "sorted" =>
    LET t == (CHOOSE i \in 1..wasteCategories : wasteLabels[i] = predictedLabel) - 1
    IN /\ predictedLabel \in LabelSet
       /\ LogCount("step") <= 1
       /\ StepsCommanded = ShortestDelta(slotAtStart, t) * stepsPerSlot
       /\ (slotAtStart = 0 /\ predictedLabel = "Metal"
             => StepsCommanded = -2 * stepsPerSlot)
       /\ (slotAtStart = 4 /\ predictedLabel = "Paper"
             => StepsCommanded = 2 * stepsPerSlot)
       /\ LogOf("trapdoor") = <<Ev("trapdoor", servoOpenAngle),
                                Ev("trapdoor", servoClosedAngle)>>
       /\ currentSlot = t

C3_Witness ==
  /\ outcome = "sorted"
  /\ slotAtStart = 0
  /\ predictedLabel = "Metal"
  /\ StepsCommanded = -2 * stepsPerSlot
  /\ currentSlot = 3

\* C4: an object-present reading seen by loop() less than irDebounceMs after
\* the previously accepted detection starts no cycle; one more than
\* irDebounceMs after it starts a cycle.
C4_Debounce ==
  polled.level = LOW =>
    /\ (polled.elapsed < irDebounceMs => ~polled.accepted)
    /\ (polled.elapsed > irDebounceMs => polled.accepted)

C4_Witness ==
  /\ polled.level = LOW
  /\ polled.sinceReturn = 0
  /\ polled.elapsed = beep(2, 100, 50)
  /\ polled.accepted

\* C5: the timestamp of the debounce is taken when the cycle completes, so a
\* trigger after a cycle is accepted only once more than irDebounceMs has
\* passed since that cycle returned to loop().
C5_AcceptedOnlyAfterDebounceSinceReturn ==
  (polled.accepted /\ polled.sinceReturn >= 0)
    => polled.sinceReturn > irDebounceMs

\* C6: no outcome of a detection cycle is a crash or a halt.
C6_NoCrash == pc # "crashed"

\* C7: a POST that fails, by a non-positive return code or by an HTTP failure
\* status (4xx, 5xx), ends the cycle: the body selects no bin and sortWaste
\* is not called.
C7_FailedPostSelectsNoBin ==
  (\E i \in 1..Len(log) :
      log[i].ev = "post" /\ (log[i].arg <= 0 \/ log[i].arg >= 400))
    => (~LogHas("strcmp") /\ ~LogHas("sortWaste"))

\* C8: when the link is down at the start of the cycle and still down after
\* the wait, the cycle ends before any capture or POST, currentSlot is
\* unchanged, the connect-failed pattern is emitted exactly once, and the
\* link is torn down and reconnected once, with no second attempt.
C8_ConnectivityTimeout ==
  (\E i \in 1..Len(log) : log[i] = Ev("wifiStatus", 0)) =>
    /\ pc = "return"
    /\ outcome = "wifi_timeout"
    /\ ~LogHas("capture")
    /\ ~LogHas("post")
    /\ LogCount("beepWiFiFailed") = 1
    /\ ~LogHas("beepWiFiConnected")
    /\ LogCount("disconnect") = 1
    /\ LogCount("reconnect") = 1
    /\ currentSlot = slotAtStart

C8_Witness ==
  /\ pc = "return"
  /\ outcome = "wifi_timeout"
  /\ sinceWait >= wifiReconnectTimeoutMs
  /\ LogCount("beepWiFiFailed") = 1
  /\ currentSlot = 3

\* the order sortWaste keeps, from slot c to slot t
ExpectedSort(c, t) ==
  LET d == ShortestDelta(c, t)
  IN <<Ev("beepSortStart", 0)>>
       \o (IF d # 0
             THEN <<Ev("step", d * stepsPerSlot), Ev("delay", settleMs)>>
             ELSE <<>>)
       \o <<Ev("trapdoor", servoOpenAngle), Ev("delay", trapdoorOpenMs),
            Ev("trapdoor", servoClosedAngle), Ev("currentSlot", t),
            Ev("beepSortDone", 0)>>

\* C9: sortWaste acts in this order: start beep, rotation and settle delay
\* (only for a non-zero delta), trapdoor open, dwell, trapdoor close, write of
\* currentSlot, completion beep; currentSlot is written only there, after the
\* rotation and the gate close.
C9_SortOrder ==
  /\ currentSlot = (IF LogHas("currentSlot") THEN SortTarget ELSE slotAtStart)
  /\ LogHas("sortWaste") =>
       /\ IsPrefix(SortLog, ExpectedSort(slotAtStart, SortTarget))
       /\ (outcome = "sorted" => SortLog = ExpectedSort(slotAtStart, SortTarget))

C9_Witness ==
  /\ outcome = "sorted"
  /\ pc = "cleanup"
  /\ delta = 2
  /\ Len(SortLog) = 8
  /\ SortLog[2] = Ev("step", 2 * stepsPerSlot)
  /\ SortLog[7] = Ev("currentSlot", currentSlot)

\* C10: when the target bin is currentSlot, delta is 0, carousel.step is not
\* called and no settle delay is taken, but the trapdoor is opened, held for
\* the dwell and closed, and currentSlot keeps its value.
C10_NoOpMove ==
  (LogHas("sortWaste") /\ SortTarget = slotAtStart) =>
    /\ delta = 0
    /\ ~LogHas("step")
    /\ \A i \in 1..Len(log) : log[i] # Ev("delay", settleMs)
    /\ currentSlot = slotAtStart
    /\ (outcome = "sorted" =>
          SelectSeq(log, LAMBDA x : x.ev \in {"trapdoor", "delay"})
            = <<Ev("trapdoor", servoOpenAngle), Ev("delay", trapdoorOpenMs),
                Ev("trapdoor", servoClosedAngle)>>)

C10_Witness ==
  /\ outcome = "sorted"
  /\ SortTarget = slotAtStart
  /\ slotAtStart = 2
  /\ trapdoor = servoClosedAngle
  /\ LogCount("trapdoor") = 2

\* the cycle is past its POST
PastPost ==
  pc \in {"parse", "match", "dispatch", "cleanup", "sort_begin", "sort_plan",
          "sort_step", "sort_open", "sort_dwell", "sort_close", "sort_write",
          "sort_done", "crashed"}

\* C11: an accepted detection issues at most one POST, and exactly one once
\* a capture has succeeded and the cycle is past the POST; a cycle whose
\* capture failed ends without a POST; a POST that failed is the last one of
\* its cycle and the cycle goes on to its end.
C11_OnePost ==
  /\ LogCount("post") <= 1
  /\ (\E i \in 1..Len(log) : log[i] = Ev("capture", 0))
       => (~LogHas("post") /\ pc = "return" /\ outcome = "capture_failed")
  /\ (\E i \in 1..Len(log) : log[i] = Ev("capture", 1))
       => (IF pc = "post" THEN ~LogHas("post") ELSE LogCount("post") = 1)
  /\ LogHas("post") => (PastPost \/ pc = "return") /\ LogHas("capture")
  /\ (\E i \in 1..Len(log) : log[i].ev = "post" /\ log[i].arg <= 0)
       => (pc \in {"cleanup", "return"} /\ outcome = "post_failed")

C11_Witness ==
  /\ pc = "return"
  /\ outcome = "post_failed"
  /\ LogOf("capture") = <<Ev("capture", 1)>>
  /\ LogOf("post") = <<Ev("post", -1)>>

\* C12: once the strcmp loop has run on a label string, a string equal to
\* wasteLabels[i] has selected bin i, the only i with that label, and
\* sortWaste is called with it; a string equal to no table entry ("metal",
\* "Battery") has selected no bin: labelIndex is -1, sortWaste is not called,
\* nothing is actuated and currentSlot keeps its value.
C12_ExactLookup ==
  (LogHas("strcmp") /\ predictedLabel # NullPtr) =>
    IF predictedLabel \in LabelSet
      THEN /\ labelIndex \in 0..(wasteCategories - 1)
           /\ \A j \in 1..wasteCategories :
                wasteLabels[j] = predictedLabel <=> j = labelIndex + 1
           /\ (pc # "dispatch" <=> LogHas("sortWaste"))
           /\ (LogHas("sortWaste") => SortTarget = labelIndex /\ label = labelIndex)
      ELSE /\ labelIndex = -1
           /\ pc \in {"dispatch", "cleanup", "return"}
           /\ ~LogHas("sortWaste")
           /\ ~LogHas("step")
           /\ ~LogHas("trapdoor")
           /\ currentSlot = slotAtStart

C12_Witness ==
  /\ pc = "cleanup"
  /\ predictedLabel = "metal"
  /\ labelIndex = -1
  /\ currentSlot = 3
  /\ ~LogHas("sortWaste")

\* C13: one cycle at a time.  handleWasteDetected is entered only from the
\* idle loop, on a pass that reads the sensor LOW, never from inside a
\* running cycle; the sensor is read only by a pass of the idle loop; and an
\* object that came to the sensor and left it again while a cycle was
\* running starts no cycle on the next pass.
C13_SingleCycle ==
  [][/\ (pc' = "wifi_check" /\ pc # "wifi_check") => (pc = "idle" /\ ir = LOW)
     /\ (log' # log /\ log' = <<Ev("beepDetected", 0)>>) => log = <<>>
     /\ (polled' # polled /\ polled' # NoPass) => pc = "idle"
     /\ polled'.missed => (~polled'.accepted /\ polled'.level = HIGH)]_vars

C13_Witness ==
  /\ pc = "idle"
  /\ polled.missed
  /\ polled.level = HIGH
  /\ ~polled.accepted
  /\ polled.sinceReturn = 0

\* C14: a cycle whose first status test reads the link up emits neither the
\* connected nor the connect-failed pattern and issues no disconnect or
\* reconnect, and goes straight to the capture; a cycle whose first test
\* reads the link down and whose test after the wait reads it up emits the
\* connected pattern exactly once, no connect-failed pattern, and goes on to
\* the capture (and, with a frame, to the POST).
C14_ConnectivityFeedback ==
  /\ (\E i \in 1..Len(log) : log[i] = Ev("linkCheck", 1)) =>
       /\ ~LogHas("beepWiFiConnected")
       /\ ~LogHas("beepWiFiFailed")
       /\ ~LogHas("disconnect")
       /\ ~LogHas("reconnect")
       /\ ~LogHas("wifiStatus")
       /\ (pc = "capture" \/ LogHas("capture"))
  /\ (/\ \E i \in 1..Len(log) : log[i] = Ev("linkCheck", 0)
      /\ \E i \in 1..Len(log) : log[i] = Ev("wifiStatus", 1)) =>
       /\ LogCount("beepWiFiConnected") = 1
       /\ ~LogHas("beepWiFiFailed")
       /\ LogCount("disconnect") = 1
       /\ LogCount("reconnect") = 1
       /\ outcome # "wifi_timeout"
       /\ (pc = "capture" \/ LogHas("capture"))
       /\ ((\E i \in 1..Len(log) : log[i] = Ev("capture", 1))
             => (pc = "post" \/ LogHas("post")))

C14_Witness ==
  /\ pc = "parse"
  /\ log = <<Ev("beepDetected", 0), Ev("linkCheck", 0), Ev("disconnect", 0),
             Ev("reconnect", 0), Ev("wifiStatus", 1), Ev("beepWiFiConnected", 0),
             Ev("capture", 1), Ev("post", 200)>>

\* C15: in every reachable state currentSlot is in [0, wasteCategories), the
\* index found by the lookup is -1 or in that range, and sortWaste is only
\* called with an index in [0, wasteCategories).
C15_SlotInRange ==
  /\ currentSlot \in 0..(wasteCategories - 1)
  /\ slotAtStart \in 0..(wasteCategories - 1)
  /\ labelIndex \in -1..(wasteCategories - 1)
  /\ \A i \in 1..Len(log) :
       log[i].ev \in {"sortWaste", "currentSlot"}
         => log[i].arg \in 0..(wasteCategories - 1)
  /\ pc \in {"sort_begin", "sort_plan", "sort_step", "sort_open", "sort_dwell",
              "sort_close", "sort_write", "sort_done"}
       => label \in 0..(wasteCategories - 1)

C15_Witness ==
  /\ outcome = "sorted"
  /\ predictedLabel = "Glass"
  /\ SortTarget = wasteCategories - 1
  /\ currentSlot = wasteCategories - 1
  /\ slotAtStart = 1

\* C16: the reconnect wait terminates.  While the wait runs, a poll that
\* reads the link up takes no further delay and leaves the loop; a poll
\* delays by 200 ms only with the link down and less than 5000 ms elapsed;
\* the loop is left with the link read up or with at least 5000 ms and at
\* most 5000 + 200 ms elapsed.  With the thread running, every wait reaches
\* the test after the loop, and a cycle that timed out returns to the idle
\* loop.
C16_WaitTerminates ==
  /\ [][pc = "wifi_wait" =>
          /\ (sinceWait' # sinceWait =>
                /\ ~wifi
                /\ sinceWait < wifiReconnectTimeoutMs
                /\ sinceWait' = sinceWait + wifiPollMs
                /\ pc' = "wifi_wait")
          /\ (pc' # "wifi_wait" =>
                /\ pc' = "wifi_verdict"
                /\ (wifi \/ sinceWait >= wifiReconnectTimeoutMs)
                /\ sinceWait <= wifiReconnectTimeoutMs + wifiPollMs)]_vars
  /\ (pc = "wifi_wait" ~> pc = "wifi_verdict")
  /\ (outcome = "wifi_timeout" ~> pc = "idle")

C16_Witness ==
  /\ pc = "wifi_verdict"
  /\ ~wifi
  /\ sinceWait = wifiReconnectTimeoutMs
  /\ LogHas("reconnect")
  /\ outcome = "running"

\* C17: after any sequence of completed sorts from currentSlot = 0 at step
\* position 0, the sum of the steps commanded to the carousel, modulo
\* stepsPerRevolution, equals currentSlot * stepsPerSlot.
C17_PositionMatchesSlot ==
  tour.pos % stepsPerRevolution = tour.slot * stepsPerSlot

\* C18: every cycle that obtained a frame buffer has returned it, and ended
\* the HTTP client it opened, by the time control is back in loop(): a cycle
\* about to return with a frame captured has logged fbReturn and httpEnd,
\* and whenever the loop is idle no frame buffer is held.
C18_BuffersReleased ==
  /\ (pc = "return" /\ \E i \in 1..Len(log) : log[i] = Ev("capture", 1))
       => (LogCount("fbReturn") = 1 /\ LogCount("httpEnd") = 1)
  /\ pc = "idle" => fbHeld = 0

\* C19: strcmp is only called on a string that is present: a response that
\* parses but carries no string label never reaches the strcmp loop, and
\* its cycle ends as a failure of that cycle, with no actuation.
C19_StrcmpOnlyOnString ==
  /\ \A i \in 1..Len(log) : log[i] # Ev("strcmp", 0)
  /\ (resp.ok /\ resp.label = NullPtr /\ pc \notin {"parse", "match"})
       => (pc \in {"cleanup", "return"} /\ ~LogHas("sortWaste"))

\* C20: once setup has run, the trapdoor is at its closed angle in every
\* state but the dwell of sortWaste (from the write of the open angle to the
\* write of the closed angle): closed whenever the loop is idle and before
\* and while the carousel is stepped; and when it is open, the rotation of
\* that sort, if it has one, has been commanded and its settle delay taken.
C20_TrapdoorClosed ==
  pc \notin {"setup"} =>
    /\ trapdoor \in {servoClosedAngle, servoOpenAngle}
    /\ (trapdoor = servoOpenAngle <=> pc \in {"sort_dwell", "sort_close"})
    /\ (pc \in {"idle", "sort_begin", "sort_plan", "sort_step", "sort_open"}
          => trapdoor = servoClosedAngle)
    /\ (trapdoor = servoOpenAngle =>
          /\ (stepsToMove # 0 =>
                \E i \in 1..Len(log) : \E j \in (i + 1)..Len(log) :
                  \E k \in (j + 1)..Len(log) :
                    /\ log[i] = Ev("step", stepsToMove)
                    /\ log[j] = Ev("delay", settleMs)
                    /\ log[k] = Ev("trapdoor", servoOpenAngle))
          /\ LogCount("step") = (IF stepsToMove # 0 THEN 1 ELSE 0))
    /\ \A i \in 1..Len(log) : \A j \in 1..Len(log) :
         (log[i].ev = "step" /\ log[j] = Ev("trapdoor", servoOpenAngle)) => i < j

C20_Witness ==
  /\ pc = "sort_dwell"
  /\ trapdoor = servoOpenAngle
  /\ stepsToMove = -2 * stepsPerSlot
  /\ LogCount("step") = 1

====
